---- MODULE Spec2Model ----
(***************************************************************************)
(* PaceExtractor (src/pace_extractor.py): the extraction / checkpoint /    *)
(* resume pipeline for one (station_code, product_type) key.               *)
(*                                                                         *)
(* The output directory is the only persisted state: the checkpoint files  *)
(* checkpoint_{station}_{product}_b{batch_num:04d}.nc (ckpt, keyed by      *)
(* batch_num) and the final artifact {station}_{product}_final.nc (final). *)
(* A granule handle is its 0-based position in the list the locator        *)
(* resolved; the Pixel Record extracted from it carries the granule's      *)
(* time_coverage_start.                                                    *)
(***************************************************************************)
EXTENDS Integers, Sequences, FiniteSets, TLC

\* Largest batch_size given to the constructor.
MaxBatch == 2
\* Longest granule list given to extract_and_save.
MaxGranules == 4

VARIABLES
    batch_size,       \* self.batch_size
    ckpt,             \* checkpoint files: batch_num -> [complete, data]
    final,            \* the final artifact: [exists, complete, data]
    pc,               \* position of the process inside extract_and_save
    ret,              \* outcome of the last call
    granules,         \* argument of the running call
    processed_count,  \* local of extract_and_save
    files,            \* earthaccess.open(remaining_granules)
    i,                \* number of loop iterations done
    current_batch,    \* local accumulator
    checkpoints,      \* _finalize_station: checkpoints still to unlink
    attempted,        \* history: granules given to _extract_granule_pixel in this run
    failed,           \* history: granules whose extraction raised in this run
    io_failed,        \* history: a checkpoint write raised in this run
    entry_cps,        \* history: number of checkpoint files at entry of this run
    merged,           \* history: checkpoint files at the start of finalization
    steady,           \* history: [n, ok]: while ok, every call so far had n
                      \* granules (-1: no call yet), nothing raised and no file
                      \* write was cut short; once that fails, [-1, FALSE] for good
    opened,           \* history: earthaccess.open was called in this run
    request,          \* a call of find_granules or _extract_granule_pixel: its arguments
    response          \* what that call returned or raised

vars == <<batch_size, ckpt, final, pc, ret, granules, processed_count, files, i,
          current_batch, checkpoints, attempted, failed, io_failed, entry_cps,
          merged, steady, opened, request, response>>

locals == <<processed_count, files, i, current_batch, checkpoints>>
history == <<attempted, failed, io_failed, entry_cps, merged>>
calls == <<request, response>>

----------------------------------------------------------------------------
(* Data *)

NoFiles == [b \in {} |-> <<>>]
Absent == [exists |-> FALSE, complete |-> FALSE, data |-> <<>>]

\* The list find_granules resolved, cut to n handles.
GranuleList(n) == [p \in 1..n |-> p - 1]

\* time_coverage_start of a granule: the list is not in time order.
TimeCoverageStart(g) == IF g % 2 = 0 THEN g + 2 ELSE g

\* The dataset _extract_granule_pixel returns for a granule.
PixelRecord(g) == [time |-> TimeCoverageStart(g), granule |-> g]

\* _get_checkpoint_path: the number in the file name.
BatchNum(batch_index) == batch_index \div batch_size

\* The decimal digits of a batch number.
RECURSIVE Decimal(_)
Decimal(n) == IF n < 10 THEN <<n>> ELSE Decimal(n \div 10) \o <<n % 10>>

\* f"{batch_num:04d}": the digits, zero-padded to at least four places.
Format04d(n) ==
    LET d == Decimal(n)
        pad == 4 - Len(d)
    IN IF pad <= 0 THEN d
       ELSE [k \in 1..4 |-> IF k <= pad THEN 0 ELSE d[k - pad]]

\* The order of two checkpoint paths as text. The names differ only in the
\* digits after "_b"; the "." of ".nc" that follows them sorts before every
\* digit, so of two names where one's digits are a prefix of the other's the
\* shorter comes first.
PathBefore(a, b) ==
    LET x == Format04d(a)
        y == Format04d(b)
        common == IF Len(x) <= Len(y) THEN Len(x) ELSE Len(y)
        diff == {k \in 1..common : x[k] # y[k]}
    IN IF diff = {} THEN Len(x) <= Len(y)
       ELSE LET k == CHOOSE j \in diff : \A l \in diff : j <= l
            IN x[k] < y[k]

\* sorted(list(glob("checkpoint_..._b*.nc"))): the paths in ascending text
\* order, each named by its batch number.
RECURSIVE SortedNames(_)
SortedNames(S) ==
    IF S = {} THEN <<>>
    ELSE LET m == CHOOSE x \in S : \A y \in S : PathBefore(x, y)
         IN <<m>> \o SortedNames(S \ {m})

Glob == SortedNames(DOMAIN ckpt)

\* the existence check of the final artifact left out
FinalExistsIgnored == FALSE

\* final_path.exists()
FinalExists == final.exists

\* granules[processed_count + 1:]
SliceFromNext(s, from) ==
    IF from + 1 >= Len(s) THEN <<>> ELSE SubSeq(s, from + 2, Len(s))

\* granules[processed_count:]
SliceFrom(s, from) ==
    IF from >= Len(s) THEN <<>> ELSE SubSeq(s, from + 1, Len(s))

\* processed_count = len(checkpoints)
ProcessedCountFiles(cps) == Len(cps)

\* processed_count = len(checkpoints) * self.batch_size
ProcessedCount(cps) == Len(cps) * batch_size

\* a checkpoint only at the last granule
BatchDueLastOnly(global_idx, total_granules) == global_idx = total_granules

\* the condition under which the loop saves a checkpoint
BatchDue(global_idx, total_granules) ==
    (global_idx % batch_size = 0) \/ (global_idx = total_granules)

\* open_mfdataset(checkpoints, combine='nested', concat_dim='time'): the
\* records on disk of each file, in the order of the list. A cut-short file
\* gives the leading part it holds when it can be read; when it cannot, the
\* merge raises (FinalizeWriteFails).
RECURSIVE OpenMfdataset(_, _)
OpenMfdataset(names, dir) ==
    IF names = <<>> THEN <<>>
    ELSE dir[Head(names)].data \o OpenMfdataset(Tail(names), dir)

\* ds.sortby('time'): a stable sort by ascending time
InsertByTime(r, s) ==
    LET k == Cardinality({x \in 1..Len(s) : s[x].time <= r.time})
    IN SubSeq(s, 1, k) \o <<r>> \o SubSeq(s, k + 1, Len(s))

\* the merged records left in checkpoint order
Unsorted(s) == s

RECURSIVE SortByTime(_)
SortByTime(s) ==
    IF s = <<>> THEN <<>>
    ELSE InsertByTime(s[Len(s)], SortByTime(SubSeq(s, 1, Len(s) - 1)))

\* A checkpoint file after to_netcdf(batch_path) has returned.
Saved(data) == [complete |-> TRUE, data |-> data]

\* A checkpoint file when to_netcdf(batch_path) is cut short after creating
\* or truncating the file: the write is in place, so the file stays, with any
\* leading part of the batch on disk.
CutShort(data) ==
    {[complete |-> FALSE, data |-> SubSeq(data, 1, k)] : k \in 0..Len(data)}

\* The directory's checkpoint files after a write to the file of that name:
\* a new file is created, an existing one replaced.
WriteFile(dir, name, file) ==
    [b \in DOMAIN dir \cup {name} |-> IF b = name THEN file ELSE dir[b]]

\* an unlink that removes nothing
UnlinkNothing(dir, name) == dir

\* path.unlink()
Unlink(dir, name) == [b \in DOMAIN dir \ {name} |-> dir[b]]

\* final_ds: the checkpoints of the directory merged and sorted by time.
FinalDs(dir) == SortByTime(OpenMfdataset(SortedNames(DOMAIN dir), dir))

\* final_path after final_ds.to_netcdf(final_path) has returned.
Written(data) == [exists |-> TRUE, complete |-> TRUE, data |-> data]

\* final_path when to_netcdf(final_path) is cut short after creating the
\* file: the write is in place, so the file stays, with any leading part of
\* the data on disk.
PartialFinals(data) ==
    {[exists |-> TRUE, complete |-> FALSE, data |-> SubSeq(data, 1, k)] :
        k \in 0..Len(data)}

----------------------------------------------------------------------------
(* Operations *)

NoRequest == [op |-> "none"]
NoResponse == [status |-> "none"]

\* The output directory and the memory of a process before any call.
EmptyDirectory ==
    /\ ckpt = NoFiles
    /\ final = Absent
    /\ pc = "idle"
    /\ ret = "none"
    /\ granules = <<>>
    /\ processed_count = 0
    /\ files = <<>>
    /\ i = 0
    /\ current_batch = <<>>
    /\ checkpoints = <<>>
    /\ attempted = <<>>
    /\ failed = {}
    /\ io_failed = FALSE
    /\ entry_cps = 0
    /\ merged = NoFiles
    /\ steady = [n |-> -1, ok |-> TRUE]
    /\ opened = FALSE

Init ==
    /\ batch_size \in 1..MaxBatch
    /\ EmptyDirectory
    /\ request = NoRequest
    /\ response = NoResponse

\* Nothing in memory outlives the call.
EndOfCall ==
    /\ granules' = <<>>
    /\ processed_count' = 0
    /\ files' = <<>>
    /\ i' = 0
    /\ current_batch' = <<>>
    /\ checkpoints' = <<>>
    /\ attempted' = <<>>
    /\ failed' = {}
    /\ io_failed' = FALSE
    /\ entry_cps' = 0
    /\ merged' = NoFiles
    /\ opened' = FALSE
    /\ UNCHANGED calls

\* A process calls extract_and_save(station, granules, lat, lon, product).
Call(n) ==
    /\ pc = "idle"
    /\ pc' = "called"
    /\ ret' = "pending"
    /\ granules' = GranuleList(n)
    /\ entry_cps' = Cardinality(DOMAIN ckpt)
    /\ steady' = IF ~steady.ok THEN steady
                 ELSE IF steady.n = -1 THEN [steady EXCEPT !.n = n]
                 ELSE IF steady.n = n THEN steady
                 ELSE [n |-> -1, ok |-> FALSE]
    /\ UNCHANGED <<batch_size, ckpt, final, locals, attempted, failed,
                   io_failed, merged, opened, calls>>

\* the test that sends a run straight to the finalizer, with > for >=
AllProcessedStrictly(count, total_granules) ==
    count > total_granules /\ total_granules > 0

\* processed_count >= total_granules and total_granules > 0
AllProcessed(count, total_granules) ==
    count >= total_granules /\ total_granules > 0

\* earthaccess.open(remaining_granules) raises: the call is outside the try
\* of the loop, so extract_and_save ends with the error, no file changed.
OpenFails ==
    /\ pc = "called"
    /\ ~FinalExists
    /\ ~AllProcessed(ProcessedCount(Glob), Len(granules))
    /\ ret' = "raised"
    /\ pc' = "idle"
    /\ EndOfCall
    /\ steady' = [n |-> -1, ok |-> FALSE]
    /\ UNCHANGED <<batch_size, ckpt, final>>

\* extract_and_save up to the loop: the short-circuit, the resume point.
Enter ==
    /\ pc = "called"
    /\ IF FinalExists
       THEN /\ ret' = "final_path"
            /\ pc' = "idle"
            /\ EndOfCall
       ELSE LET total_granules == Len(granules)
                count == ProcessedCount(Glob)
            IN /\ processed_count' = count
               /\ ret' = ret
               /\ IF AllProcessed(count, total_granules)
                  THEN /\ pc' = "finalize"
                       /\ files' = <<>>
                       /\ opened' = FALSE
                  ELSE /\ files' = SliceFrom(granules, count)
                       /\ opened' = TRUE
                       /\ pc' = IF SliceFrom(granules, count) = <<>>
                                THEN "finalize" ELSE "loop"
               /\ UNCHANGED <<granules, i, current_batch, checkpoints, history,
                              calls>>
    /\ UNCHANGED <<batch_size, ckpt, final, steady>>

\* One iteration of the loop; after the last one the loop is left.
AfterIteration ==
    /\ i' = i + 1
    /\ pc' = IF i + 1 = Len(files) THEN "finalize" ELSE "loop"
    /\ attempted' = Append(attempted, files[i + 1])
    /\ UNCHANGED <<batch_size, final, ret, granules, processed_count, files,
                   checkpoints, entry_cps, merged, opened, calls>>

\* _extract_granule_pixel raises: logged, continue.
ExtractFails ==
    /\ pc = "loop"
    /\ AfterIteration
    /\ failed' = failed \cup {files[i + 1]}
    /\ steady' = [n |-> -1, ok |-> FALSE]
    /\ UNCHANGED <<ckpt, current_batch, io_failed>>

\* The extraction succeeds; the batch is saved when it is due.
ExtractSucceeds ==
    /\ pc = "loop"
    /\ AfterIteration
    /\ LET batch == Append(current_batch, PixelRecord(files[i + 1]))
           global_idx == processed_count + i + 1
       IN IF BatchDue(global_idx, Len(granules))
          THEN /\ ckpt' = WriteFile(ckpt, BatchNum(global_idx), Saved(batch))
               /\ current_batch' = <<>>
          ELSE /\ ckpt' = ckpt
               /\ current_batch' = batch
    /\ UNCHANGED <<failed, io_failed, steady>>

\* The checkpoint files when the write of the batch due at global_idx is cut
\* short: before batch_path is created or truncated nothing has changed,
\* after it the file is left partly written.
CutShortWrites(global_idx, batch) ==
    {ckpt} \cup {WriteFile(ckpt, BatchNum(global_idx), f) : f \in CutShort(batch)}

\* The extraction succeeds and to_netcdf of the due batch raises: the same
\* except clause logs it and continues, the batch is not cleared.
CheckpointWriteFails ==
    /\ pc = "loop"
    /\ BatchDue(processed_count + i + 1, Len(granules))
    /\ AfterIteration
    /\ current_batch' = Append(current_batch, PixelRecord(files[i + 1]))
    /\ ckpt' \in CutShortWrites(processed_count + i + 1,
                               Append(current_batch, PixelRecord(files[i + 1])))
    /\ io_failed' = TRUE
    /\ steady' = [n |-> -1, ok |-> FALSE]
    /\ UNCHANGED failed

\* _finalize_station without the `if not checkpoints` guard: an empty
\* final artifact is written and its path returned.
FinalizeNothingWritesEmpty ==
    /\ pc = "finalize"
    /\ Glob = <<>>
    /\ final' = Written(<<>>)
    /\ ret' = "final_path"
    /\ pc' = "idle"
    /\ EndOfCall
    /\ UNCHANGED <<batch_size, ckpt, steady>>

\* _finalize_station with no checkpoint: returns None.
FinalizeNothing ==
    /\ pc = "finalize"
    /\ Glob = <<>>
    /\ ret' = "None"
    /\ pc' = "idle"
    /\ EndOfCall
    /\ UNCHANGED <<batch_size, ckpt, final, steady>>

\* _finalize_station with the checkpoints unlinked before the final write.
FinalizeUnlinkThenWrite ==
    /\ pc = "finalize"
    /\ Glob # <<>>
    /\ final' = Written(FinalDs(ckpt))
    /\ ckpt' = NoFiles
    /\ checkpoints' = <<>>
    /\ merged' = ckpt
    /\ pc' = "unlink"
    /\ UNCHANGED <<batch_size, ret, granules, processed_count, files, i,
                   current_batch, attempted, failed, io_failed, entry_cps, steady,
                   opened, calls>>

\* _finalize_station: merge, sort, write the final artifact.
FinalizeWrite ==
    /\ pc = "finalize"
    /\ Glob # <<>>
    /\ final' = Written(FinalDs(ckpt))
    /\ checkpoints' = Glob
    /\ merged' = ckpt
    /\ pc' = "unlink"
    /\ UNCHANGED <<batch_size, ckpt, ret, granules, processed_count, files, i,
                   current_batch, attempted, failed, io_failed, entry_cps, steady,
                   opened, calls>>

\* _finalize_station with the checkpoints removed in a cleanup that also
\* runs when the final to_netcdf raises.
FinalizeWriteFailsCleansUp ==
    /\ pc = "finalize"
    /\ Glob # <<>>
    /\ final' \in {final} \cup PartialFinals(FinalDs(ckpt))
    /\ ckpt' = NoFiles
    /\ ret' = "raised"
    /\ pc' = "idle"
    /\ EndOfCall
    /\ steady' = [n |-> -1, ok |-> FALSE]
    /\ UNCHANGED batch_size

\* _finalize_station: the merge or the final to_netcdf raises and the call
\* ends with it. Raised before final_path is created it leaves no file;
\* raised after, it leaves the file partly written.
FinalizeWriteFails ==
    /\ pc = "finalize"
    /\ Glob # <<>>
    /\ final' \in {final} \cup PartialFinals(FinalDs(ckpt))
    /\ ret' = "raised"
    /\ pc' = "idle"
    /\ EndOfCall
    /\ steady' = [n |-> -1, ok |-> FALSE]
    /\ UNCHANGED <<batch_size, ckpt>>

\* _finalize_station: cp.unlink() for the next checkpoint of the list.
UnlinkNext ==
    /\ pc = "unlink"
    /\ checkpoints # <<>>
    /\ ckpt' = Unlink(ckpt, Head(checkpoints))
    /\ checkpoints' = Tail(checkpoints)
    /\ UNCHANGED <<batch_size, final, pc, ret, granules, processed_count, files,
                   i, current_batch, history, steady, opened, calls>>

\* _finalize_station returns final_path.
FinalizeReturn ==
    /\ pc = "unlink"
    /\ checkpoints = <<>>
    /\ ret' = "final_path"
    /\ pc' = "idle"
    /\ EndOfCall
    /\ UNCHANGED <<batch_size, ckpt, final, steady>>

\* _finalize_station: cp.unlink() raises and the call ends with it, the
\* checkpoints not yet unlinked left next to the final artifact.
UnlinkFails ==
    /\ pc = "unlink"
    /\ checkpoints # <<>>
    /\ ret' = "raised"
    /\ pc' = "idle"
    /\ EndOfCall
    /\ steady' = [n |-> -1, ok |-> FALSE]
    /\ UNCHANGED <<batch_size, ckpt, final>>

\* The process is killed: nothing in memory survives, the files stay. A kill
\* falls between two writes or inside one: inside the to_netcdf of a due
\* batch it leaves that checkpoint file partly written, inside the to_netcdf
\* of the finalizer it leaves final_path partly written.
Kill ==
    /\ pc # "idle"
    /\ pc' = "idle"
    /\ ret' = "killed"
    /\ EndOfCall
    /\ ckpt' \in IF pc = "loop" /\ BatchDue(processed_count + i + 1, Len(granules))
                 THEN CutShortWrites(processed_count + i + 1,
                          Append(current_batch, PixelRecord(files[i + 1])))
                 ELSE {ckpt}
    /\ final' \in IF pc = "finalize" /\ Glob # <<>>
                  THEN {final} \cup PartialFinals(FinalDs(ckpt))
                  ELSE {final}
    /\ steady' = IF final' = final /\ ckpt' = ckpt THEN steady
                 ELSE [n |-> -1, ok |-> FALSE]
    /\ UNCHANGED batch_size

Next ==
    \/ \E n \in 0..MaxGranules : Call(n)
    \/ Enter
    \/ OpenFails
    \/ ExtractFails
    \/ ExtractSucceeds
    \/ CheckpointWriteFails
    \/ FinalizeNothing
    \/ FinalizeWrite
    \/ FinalizeWriteFails
    \/ UnlinkNext
    \/ UnlinkFails
    \/ FinalizeReturn
    \/ Kill

Spec == Init /\ [][Next]_vars

----------------------------------------------------------------------------
(* Properties *)

RecordsIn(dir) == OpenMfdataset(SortedNames(DOMAIN dir), dir)

Granule(s) == [x \in 1..Len(s) |-> s[x].granule]

Occurrences(r, s) == Cardinality({x \in 1..Len(s) : s[x] = r})

\* a and b hold the same records, each as often
SameRecords(a, b) ==
    /\ Len(a) = Len(b)
    /\ \A x \in 1..Len(a) : Occurrences(a[x], a) = Occurrences(a[x], b)

AscendingTime(s) ==
    \A x, y \in 1..Len(s) : x < y => s[x].time <= s[y].time

\* The loop of this run went over the whole list, from an empty directory,
\* and nothing raised.
WholeListRun ==
    /\ entry_cps = 0
    /\ attempted = granules
    /\ ~io_failed

AllExtracted == WholeListRun /\ failed = {}

\* C1 (partial batch): an uninterrupted run over batch_size + 1 granules that
\* all extract, started on an empty directory, reaches finalization with two
\* distinct checkpoint files, one of batch_size records and one of 1 record.
C1_PartialBatch ==
    (pc = "finalize" /\ AllExtracted /\ Len(granules) = batch_size + 1)
    => /\ Cardinality(DOMAIN ckpt) = 2
       /\ \E a, b \in DOMAIN ckpt :
            a # b /\ Len(ckpt[a].data) = batch_size /\ Len(ckpt[b].data) = 1

\* C2 (granule failure): a run over batch_size granules on an empty directory
\* in which exactly one extraction fails, at any position, reaches
\* finalization with batch_size - 1 records in its checkpoints.
C2_GranuleFailure ==
    (pc = "finalize" /\ WholeListRun /\ Len(granules) = batch_size
        /\ Cardinality(failed) = 1)
    => Len(RecordsIn(ckpt)) = batch_size - 1

\* C3 (resume correctness, happy path): a run over M * batch_size granules
\* that all extract, started on an empty directory, writes exactly M
\* checkpoint files of batch_size records each, and the final artifact then
\* written holds M * batch_size records in ascending time order.
C3_ResumeHappyPath ==
    (AllExtracted /\ Len(granules) % batch_size = 0)
    => LET M == Len(granules) \div batch_size
       IN /\ pc = "finalize" =>
                /\ Cardinality(DOMAIN ckpt) = M
                /\ \A b \in DOMAIN ckpt :
                      ckpt[b].complete /\ Len(ckpt[b].data) = batch_size
          /\ pc = "unlink" =>
                /\ Cardinality(DOMAIN merged) = M
                /\ \A b \in DOMAIN merged : Len(merged[b].data) = batch_size
                /\ final.exists /\ final.complete
                /\ Len(final.data) = M * batch_size
                /\ AscendingTime(final.data)

C3_Witness ==
    /\ pc = "unlink"
    /\ checkpoints = <<>>
    /\ AllExtracted
    /\ batch_size = 2
    /\ Len(granules) = 4
    /\ Granule(final.data) = <<1, 0, 3, 2>>

\* C4 (re-entrant resume): a run that finds no final artifact and k
\* checkpoint files, k * batch_size < total_granules, has processed_count =
\* k * batch_size and gives to the extractor the granules at positions
\* k * batch_size .. total_granules - 1, in list order, each once, and no other.
C4_ReentrantResume ==
    (pc \in {"loop", "finalize", "unlink"}
        /\ entry_cps * batch_size < Len(granules))
    => LET from == entry_cps * batch_size
       IN /\ processed_count = from
          /\ attempted = [x \in 1..i |-> granules[from + x]]
          /\ pc # "loop" => i = Len(granules) - from

C4_Witness ==
    /\ pc = "finalize"
    /\ batch_size = 2
    /\ entry_cps = 1
    /\ Len(granules) = 4
    /\ attempted = <<2, 3>>

\* C5 (idempotent short-circuit): a call that finds the final artifact
\* returns its path at once, without opening or extracting a granule and
\* without changing any file; no step ever changes an existing final artifact.
C5_ShortCircuit ==
    [][/\ (pc = "called" /\ final.exists /\ ret' # "killed") =>
            /\ ret' = "final_path"
            /\ pc' = "idle"
            /\ attempted' = <<>>
            /\ opened' = FALSE
            /\ ckpt' = ckpt
       /\ final.exists => final' = final]_vars

C5_Witness ==
    /\ pc = "idle"
    /\ ret = "final_path"
    /\ final.exists
    /\ ckpt # NoFiles

\* C6 (post-finalize cleanup): when _finalize_station is about to return the
\* path, no checkpoint file is left, the final artifact exists and holds the
\* records of the checkpoints found at the start, in ascending time order.
C6_PostFinalizeCleanup ==
    (pc = "unlink" /\ checkpoints = <<>>)
    => /\ ckpt = NoFiles
       /\ final.exists /\ final.complete
       /\ SameRecords(final.data, RecordsIn(merged))
       /\ AscendingTime(final.data)

C6_Witness ==
    /\ pc = "unlink"
    /\ checkpoints = <<>>
    /\ Cardinality(DOMAIN merged) = 2
    /\ Len(final.data) = 3

\* C7 (finalizer ordering): a step removes a checkpoint file only when the
\* write of the final artifact has completed, with the merged records of the
\* checkpoints in time order; a failed final write ends the call with the
\* error and leaves every checkpoint, and the final artifact either untouched
\* or partly written, never completed.
C7_FinalizerOrdering ==
    [][/\ (\E b \in DOMAIN ckpt : b \notin DOMAIN ckpt') =>
            /\ final.exists /\ final.complete
            /\ final.data = SortByTime(RecordsIn(merged))
       /\ (pc = "finalize" /\ ret' = "raised") =>
            /\ ckpt' = ckpt
            /\ final' = final \/ (final'.exists /\ ~final'.complete)
            /\ pc' = "idle"]_vars

C7_Witness ==
    /\ ret = "killed"
    /\ final.exists /\ final.complete
    /\ Cardinality(DOMAIN ckpt) = 1
    /\ Len(final.data) > Len(RecordsIn(ckpt))

\* C8 (kill / restart consistency): when every call so far had the same list,
\* of a length that is a multiple of batch_size, nothing raised and no write
\* was cut short (each write atomic), then after any kills and restarts a
\* completed call leaves a final artifact with the record of every granule of
\* the list exactly once.
C8_KillRestart ==
    (steady.ok /\ steady.n >= 0 /\ steady.n % batch_size = 0
        /\ (final.exists \/ (pc = "idle" /\ ret \in {"final_path", "None"})))
    => /\ Len(final.data) = steady.n
       /\ \A g \in 0..(steady.n - 1) :
            Occurrences(PixelRecord(g), final.data) = 1

C8_Witness ==
    /\ pc = "unlink"
    /\ checkpoints = <<>>
    /\ steady.ok
    /\ steady.n = 4
    /\ batch_size = 2
    /\ entry_cps = 1

\* C9 (checkpoint immutability): no step changes the contents of an existing
\* checkpoint file, and only the finalizer's unlink removes one.
C9_CheckpointImmutable ==
    [][\A b \in DOMAIN ckpt :
          IF b \in DOMAIN ckpt' THEN ckpt'[b] = ckpt[b] ELSE pc = "unlink"]_vars

\* C10 (batch content): while every extraction succeeds, the checkpoint file
\* named with batch index b holds the records of the granules at positions
\* b * batch_size .. (b + 1) * batch_size - 1, cut at the end of the list.
C10_BatchContent ==
    (steady.ok /\ pc \in {"loop", "finalize"})
    => \A b \in DOMAIN ckpt :
          LET lo == b * batch_size
              hi == IF (b + 1) * batch_size < Len(granules)
                    THEN (b + 1) * batch_size ELSE Len(granules)
          IN Granule(ckpt[b].data) = [x \in 1..(hi - lo) |-> lo + x - 1]

\* C11 (checkpoint write failure is fatal): once a checkpoint write has
\* raised, the call has ended with the error: the loop extracts no further
\* granule and the finalizer is not entered in that run.
C11_WriteFailureFatal ==
    io_failed => pc \notin {"loop", "finalize", "unlink"}

C13_SkipToFinalize ==
    [][/\ (pc = "called" /\ ~final.exists /\ Len(granules) > 0
              /\ Cardinality(DOMAIN ckpt) * batch_size >= Len(granules)
              /\ ret' # "killed") =>
            /\ pc' = "finalize"
            /\ opened' = FALSE
            /\ files' = <<>>
            /\ attempted' = <<>>
            /\ ckpt' = ckpt
            /\ final' = final
       /\ (pc \in {"finalize", "unlink"} /\ ~opened) =>
            /\ attempted = <<>>
            /\ pc' \in {"unlink", "idle"}
            /\ \A b \in DOMAIN ckpt' : b \in DOMAIN ckpt /\ ckpt'[b] = ckpt[b]]_vars

C13_Witness ==
    /\ pc = "unlink"
    /\ checkpoints = <<>>
    /\ ~opened
    /\ Len(granules) = 4
    /\ batch_size = 2
    /\ entry_cps = 2

\* C14 (deduplicated final artifact): the final artifact never holds two
\* records of the same granule, that is two records with the same time.
C14_Deduplicated ==
    (final.exists /\ final.complete) =>
        \A x, y \in 1..Len(final.data) :
            x # y => final.data[x].time # final.data[y].time

\* C16 (flush at every boundary): after each granule of the loop, extracted
\* or failed, whose 1-based global index is a multiple of batch_size or the
\* last one, the in-memory batch has been saved and cleared; so the finalizer
\* is entered with an empty accumulator.
C16_FlushAtBoundary ==
    (pc \in {"loop", "finalize"} /\ i > 0 /\ ~io_failed
        /\ BatchDue(processed_count + i, Len(granules)))
    => current_batch = <<>>

\* C17 (checkpoint size bound): whatever extractions fail, a checkpoint file
\* written by the run holds at most batch_size records.
C17_CheckpointSizeBound ==
    (pc \in {"loop", "finalize"} /\ entry_cps = 0 /\ ~io_failed)
    => \A b \in DOMAIN ckpt : Len(ckpt[b].data) <= batch_size

\* C18 as claimed (completion marker implies cleanup): at the start of a run,
\* if the final artifact exists then no checkpoint file exists.
C18_NoOrphans ==
    (pc = "called" /\ final.exists) => ckpt = NoFiles

\* C18 as amended: the existence of the final artifact does not imply
\* cleanup; what holds is this. A finalizer that returns the path leaves no
\* checkpoint file. A call ends with checkpoints next to the final artifact
\* only when it found them so at its start, or when the finalizer was cut
\* short after creating the final artifact and before its last unlink: by a
\* kill or an error inside the final write (the artifact is then partly
\* written), by a kill between the write and the last unlink, or by an unlink
\* that raised. Next to a completely written final artifact every checkpoint
\* left is one that was merged into it. Between calls and at the start of a
\* call nothing changes the files once the final artifact exists: orphaned
\* checkpoints stay for ever.
C18_OrphansOnlyWhenInterrupted ==
    [][/\ (pc = "unlink" /\ pc' = "idle" /\ ret' = "final_path") =>
            ckpt' = NoFiles /\ final'.exists /\ final'.complete
       /\ (pc # "idle" /\ pc' = "idle" /\ final'.exists /\ ckpt' # NoFiles) =>
            \/ pc = "called" /\ final.exists /\ ckpt' = ckpt
            \/ /\ pc = "finalize" /\ ret' \in {"killed", "raised"}
               /\ ~final.exists /\ ~final'.complete /\ ckpt' = ckpt
            \/ /\ pc = "unlink" /\ ret' \in {"killed", "raised"}
               /\ final.complete /\ final' = final
       /\ (final'.exists /\ final'.complete) =>
            \A b \in DOMAIN ckpt' : \A x \in 1..Len(ckpt'[b].data) :
                Occurrences(ckpt'[b].data[x], final'.data) >= 1
       /\ (final.exists /\ pc \in {"idle", "called"}) =>
            ckpt' = ckpt /\ final' = final]_vars

\* A later call has returned the path of a partly written final artifact
\* that a cut-short final write left next to all its checkpoints.
C18_Witness ==
    /\ pc = "idle"
    /\ ret = "final_path"
    /\ final.exists
    /\ ~final.complete
    /\ Cardinality(DOMAIN ckpt) = 2

\* C19 (monotone resume point): while the final artifact does not exist no
\* step lowers the number of checkpoint files, and a run computes its
\* processed_count as that number times batch_size: the resume point of a
\* restarted run is never below that of an earlier run.
C19_MonotoneResume ==
    [][/\ ~final'.exists =>
            Cardinality(DOMAIN ckpt') >= Cardinality(DOMAIN ckpt)
       /\ (pc = "called" /\ pc' # "idle") =>
            processed_count' = Cardinality(DOMAIN ckpt) * batch_size]_vars

C19_Witness ==
    /\ pc = "loop"
    /\ steady = [n |-> 4, ok |-> TRUE]
    /\ batch_size = 1
    /\ processed_count = 2
    /\ Cardinality(DOMAIN ckpt) = 3

----------------------------------------------------------------------------
(* find_granules *)

\* Largest station coordinate (latitude, longitude) tried.
MaxCoord == 1

\* batch_size=50, the constructor's default.
DefaultBatchSize == 50

\* The names find_granules can read: its parameters and local, and the
\* module's imports and definitions.
NamesInScope ==
    {"self", "product_type", "lat", "lon", "temporal_range", "short_name",
     "Path", "earthaccess", "xr", "np", "pd", "logger", "tqdm",
     "PaceExtractor", "filter_rrc"}

\* The names the f-string of the first logger.info reads.
SearchLogNames == {"product_type", "lat", "lon", "temporal"}

\* short_name = "PACE_OCI_L2_AOP" if product_type == "Rrs" else "PACE_OCI_L2_RRC"
ShortName(product_type) ==
    IF product_type = "Rrs" THEN "PACE_OCI_L2_AOP" ELSE "PACE_OCI_L2_RRC"

\* earthaccess.search_data(short_name=..., point=(lon, lat), temporal=..., count=-1)
SearchData(short_name, point, temporal, count) ==
    [short_name |-> short_name, point |-> point, temporal |-> temporal,
     count |-> count]

\* find_granules; catalog is what the collaborator answers to the query.
FindGranules(product_type, lat, lon, temporal_range, catalog) ==
    LET short_name == ShortName(product_type)
        query == SearchData(short_name, <<lon, lat>>, temporal_range, -1)
    IN IF ~(SearchLogNames \subseteq NamesInScope)
       THEN [status |-> "NameError", searches |-> <<>>, results |-> <<>>]
       ELSE IF catalog.fails
       THEN [status |-> "CatalogError", searches |-> <<query>>, results |-> <<>>]
       ELSE [status |-> "returned", searches |-> <<query>>,
             results |-> catalog.results]

TemporalRanges == {<<"2024-04-11", "2025-12-31">>, <<"2024-04-11", "2024-04-12">>}

LocatorRequest(product_type, lat, lon, temporal_range, catalog) ==
    [op |-> "find_granules", product_type |-> product_type, lat |-> lat,
     lon |-> lon, temporal_range |-> temporal_range, catalog |-> catalog]

InitLocator ==
    /\ batch_size = DefaultBatchSize
    /\ EmptyDirectory
    /\ \E p \in {"Rrs", "Rrc"}, t \in TemporalRanges :
         \E la \in 0..MaxCoord, lo \in 0..MaxCoord :
           \E f \in BOOLEAN, n \in 0..MaxGranules :
             request = LocatorRequest(p, la, lo, t,
                           [fails |-> f, results |-> GranuleList(n)])
    /\ response = NoResponse

\* extractor.find_granules(product_type, lat, lon, temporal_range)
FindGranulesCall ==
    /\ request.op = "find_granules"
    /\ response = NoResponse
    /\ response' = FindGranules(request.product_type, request.lat, request.lon,
                                request.temporal_range, request.catalog)
    /\ UNCHANGED <<batch_size, ckpt, final, pc, ret, granules, locals, history,
                   steady, opened, request>>

NextLocator == FindGranulesCall

SpecLocator == InitLocator /\ [][NextLocator]_vars

\* C15 (granule locator pass-through): for product Rrs or Rrc, find_granules
\* queries the catalog once, with the product's identifier, the point, the
\* range and an unbounded count, and returns the collaborator's handles
\* unchanged; it fails only when the collaborator fails.
C15_LocatorPassThrough ==
    (request.op = "find_granules" /\ response # NoResponse)
    => IF request.catalog.fails
       THEN response.status = "CatalogError"
       ELSE /\ response.status = "returned"
            /\ response.results = request.catalog.results
            /\ response.searches =
                 <<[short_name |-> IF request.product_type = "Rrs"
                                   THEN "PACE_OCI_L2_AOP" ELSE "PACE_OCI_L2_RRC",
                    point |-> <<request.lon, request.lat>>,
                    temporal |-> request.temporal_range,
                    count |-> -1]>>

----------------------------------------------------------------------------
(* _extract_granule_pixel *)

\* Lengths of the reflectance variable's band axis and of the wavelength axis.
BandCounts == {1, 2}

\* (number_of_lines, pixels_per_line) of the granules tried.
GridShapes == {<<2, 2>>, <<1, 3>>, <<3, 1>>}

\* A 2D array of the grid: rows of pixels, indexed from 0 by the code.
At(array, iy, ix) == array[iy + 1][ix + 1]

Shape(array) == <<Len(array), Len(array[1])>>

\* The three groups of a granule file. Latitude and longitude are any values
\* of the grid; every pixel has a spectrum and flags of its own.
GranuleFile(shape, latitude, longitude, bands, axis) ==
    [navigation_data |->
        [latitude |-> latitude, longitude |-> longitude,
         time_coverage_start |-> 1],
     geophysical_data |->
        [Rrs |-> [y \in 1..shape[1] |-> [x \in 1..shape[2] |->
                    [b \in 1..bands |-> 100 * y + 10 * x + b]]],
         l2_flags |-> [y \in 1..shape[1] |-> [x \in 1..shape[2] |-> 10 * y + x]]],
     sensor_band_parameters |->
        [wavelength |-> [w \in 1..axis |-> 400 + w]]]

\* The distance with the target's latitude and longitude exchanged.
DistanceSwapped(ds_nav, lat, lon, iy, ix) ==
    (At(ds_nav.latitude, iy, ix) - lon) * (At(ds_nav.latitude, iy, ix) - lon)
    + (At(ds_nav.longitude, iy, ix) - lat) * (At(ds_nav.longitude, iy, ix) - lat)

\* dist = np.sqrt((latitude - lat)**2 + (longitude - lon)**2) at one pixel;
\* the square root keeps the order, the squared distance stands for it.
Distance(ds_nav, lat, lon, iy, ix) ==
    (At(ds_nav.latitude, iy, ix) - lat) * (At(ds_nav.latitude, iy, ix) - lat)
    + (At(ds_nav.longitude, iy, ix) - lon) * (At(ds_nav.longitude, iy, ix) - lon)

\* np.unravel_index(idx, shape) of a row-major flat index
UnravelIndex(idx, shape) == <<idx \div shape[2], idx % shape[2]>>

\* dist.argmin(): the first flat index, in row-major order, of the minimum
Argmin(ds_nav, lat, lon) ==
    LET shape == Shape(ds_nav.latitude)
        d(k) == Distance(ds_nav, lat, lon, UnravelIndex(k, shape)[1],
                         UnravelIndex(k, shape)[2])
        flat == 0..(shape[1] * shape[2] - 1)
    IN CHOOSE k \in flat :
          /\ \A j \in flat : d(k) <= d(j)
          /\ \A j \in flat : j < k => d(j) > d(k)

\* _extract_granule_pixel(file_obj, lat, lon, var_name); xr.Dataset raises
\* when the variable and the wavelength coordinate differ in length.
ExtractGranulePixel(file_obj, lat, lon, var_name) ==
    LET ds_nav == file_obj.navigation_data
        ds_geo == file_obj.geophysical_data
        ds_band == file_obj.sensor_band_parameters
        idx == Argmin(ds_nav, lat, lon)
        iy == UnravelIndex(idx, Shape(ds_nav.latitude))[1]
        ix == UnravelIndex(idx, Shape(ds_nav.latitude))[2]
        values == At(ds_geo[var_name], iy, ix)
    IN IF Len(values) # Len(ds_band.wavelength)
       THEN [status |-> "ValueError"]
       ELSE [status |-> "returned",
             spectrum |-> values,
             wavelength |-> ds_band.wavelength,
             time |-> ds_nav.time_coverage_start,
             l2_flags |-> At(ds_geo.l2_flags, iy, ix),
             lat |-> At(ds_nav.latitude, iy, ix),
             lon |-> At(ds_nav.longitude, iy, ix)]

CoordinateArrays(shape) == [1..shape[1] -> [1..shape[2] -> 0..MaxCoord]]

PixelRequest(file_obj, lat, lon) ==
    [op |-> "extract", file_obj |-> file_obj, lat |-> lat, lon |-> lon,
     var_name |-> "Rrs"]

InitPixel ==
    /\ batch_size = DefaultBatchSize
    /\ EmptyDirectory
    /\ \E s \in GridShapes :
         \E la \in CoordinateArrays(s), lo \in CoordinateArrays(s) :
           \E b \in BandCounts, w \in BandCounts :
             \E t \in 0..MaxCoord, u \in 0..MaxCoord :
               request = PixelRequest(GranuleFile(s, la, lo, b, w), t, u)
    /\ response = NoResponse

\* self._extract_granule_pixel(f, lat, lon, var_name)
ExtractGranulePixelCall ==
    /\ request.op = "extract"
    /\ response = NoResponse
    /\ response' = ExtractGranulePixel(request.file_obj, request.lat,
                                       request.lon, request.var_name)
    /\ UNCHANGED <<batch_size, ckpt, final, pc, ret, granules, locals, history,
                   steady, opened, request>>

NextPixel == ExtractGranulePixelCall

SpecPixel == InitPixel /\ [][NextPixel]_vars

\* C20 (nearest-pixel extraction): the record returned is that of one pixel
\* of the grid whose distance to the target is minimal over the grid: its
\* spectrum, lat, lon and flags are all read at that pixel, and the spectrum
\* is as long as the wavelength axis. A variable whose band count differs
\* from the axis gives no record.
C20_NearestPixel ==
    (request.op = "extract" /\ response # NoResponse)
    => LET nav == request.file_obj.navigation_data
           geo == request.file_obj.geophysical_data
           axis == request.file_obj.sensor_band_parameters.wavelength
           lines == 1..Len(nav.latitude)
           pixels == 1..Len(nav.latitude[1])
           far(y, x) ==
               (nav.latitude[y][x] - request.lat) * (nav.latitude[y][x] - request.lat)
               + (nav.longitude[y][x] - request.lon) * (nav.longitude[y][x] - request.lon)
       IN IF Len(geo.Rrs[1][1]) # Len(axis)
          THEN response.status = "ValueError"
          ELSE /\ response.status = "returned"
               /\ \E y \in lines, x \in pixels :
                    /\ \A v \in lines, u \in pixels : far(y, x) <= far(v, u)
                    /\ response.lat = nav.latitude[y][x]
                    /\ response.lon = nav.longitude[y][x]
                    /\ response.l2_flags = geo.l2_flags[y][x]
                    /\ response.spectrum = geo.Rrs[y][x]
               /\ Len(response.spectrum) = Len(response.wavelength)
               /\ response.wavelength = axis

C20_Witness ==
    /\ request.op = "extract"
    /\ response.status = "returned"
    /\ Shape(request.file_obj.navigation_data.latitude) = <<2, 2>>
    /\ response.l2_flags = 22
    /\ response.lat # request.lat
    /\ Len(response.spectrum) = 2

====
